---- MODULE Spec2Model ----
(***************************************************************************)
(* Model of qmetaobject/src/future.rs: the Qt event-loop executor          *)
(* (execute_async, poll_with_qt_waker, the C++ Waker object and the        *)
(* RawWakerVTable QTWAKERVTABLE) and the signal-wait future returned by    *)
(* wait_on_signal (ConnectionFuture).                                      *)
(*                                                                         *)
(* `ref` is a QAtomicInt: its increments and its decrement-and-test are    *)
(* single atomic steps.  `woken` and `completed` are plain bools: the read *)
(* of `woken`, the write of `woken` and the postEvent call in Waker::wake  *)
(* are three separate steps that interleave with other threads.            *)
(***************************************************************************)
EXTENDS Integers, Sequences, FiniteSets, TLC

\* The thread that calls execute_async and runs the Qt event loop.
LoopThread == "loop"
\* Other threads that hold waker handles.
Workers == {"t1", "t2"}
Threads == {LoopThread} \cup Workers

\* Bound on the waker handles retained outside a poll at any time.
MaxHandles == 2
\* Bound on the emissions of the awaited signal.
MaxEmits == 3
\* Saturation point of the per-batch counters wakesSince/postsSince.
MaxWakes == 3
\* Bound on the events posted to the shim plus the wake calls in progress.
MaxQueue == 3

VARIABLES
    shim,             \* the C++ Waker object: "none", "live", "destroyed"
    ref,              \* Waker::ref
    woken,            \* Waker::woken
    completed,        \* Waker::completed
    future,           \* the boxed future (Waker::future): "none", "boxed", "freed"
    queue,            \* events posted to the shim, oldest first
    lpc,              \* loop thread: "start", "spawn_poll", "idle", "event_poll"
    polling,          \* threads currently inside future.poll(), outermost first
    handles,          \* std::task::Waker values retained and not in use
    thr,              \* per thread: the vtable call it is inside
    ready,            \* history: some poll of the task returned Poll::Ready
    deleteLaterCalls, \* history: number of deleteLater() calls
    freeCount,        \* history: number of times the boxed future was dropped
    wakesSince,       \* history: Waker::wake calls since the loop last ran customEvent
    postsSince,       \* history: postEvent calls since the loop last ran customEvent
    owed,             \* history: Waker::wake was called and no poll has started since
    cf,               \* the ConnectionFutureState of a wait_on_signal future
    cfLife,           \* that future: "live" or "dropped"
    conn,             \* the registry's registration of its callback
    sig,              \* history of the signal-wait future (see SigInit)
    cbpc,             \* Slot::apply: 0 outside, else the next statement of ApplyBody
    pollPanic         \* history: a poll made by execute_async or customEvent panicked

shimVars == <<shim, ref, woken, completed, future, queue, lpc, polling, handles, thr>>
histVars == <<ready, deleteLaterCalls, freeCount, wakesSince, postsSince, owed>>
sigVars == <<cf, cfLife, conn, sig>>
extVars == <<cbpc, pollPanic>>
vars == <<shimVars, histVars, sigVars, extVars>>

Idle == [pc |-> "idle", kind |-> "ref", src |-> "pool"]

Sat(n) == IF n < MaxWakes THEN n + 1 ELSE MaxWakes

\* Number of "User" events in a queue.
RECURSIVE UserEvents(_)
UserEvents(q) ==
    IF q = <<>> THEN 0
    ELSE (IF Head(q) = "User" THEN 1 ELSE 0) + UserEvents(Tail(q))

RECURSIVE DeleteEvents(_)
DeleteEvents(q) ==
    IF q = <<>> THEN 0
    ELSE (IF Head(q) = "DeferredDelete" THEN 1 ELSE 0) + DeleteEvents(Tail(q))

\* `s->ref++` (vtable clone, execute_async, poll_with_qt_waker).
IncRef(r) == r + 1

\* Waker::deref on the triple (ref, queue, deleteLaterCalls):
\* `if (!--ref) deleteLater();`
Deref(s) ==
    LET r == s.ref - 1 IN
    IF r = 0
    THEN [ref |-> r, queue |-> Append(s.queue, "DeferredDelete"), dl |-> s.dl + 1]
    ELSE [ref |-> r, queue |-> s.queue, dl |-> s.dl]

Counts == [ref |-> ref, queue |-> queue, dl |-> deleteLaterCalls]

SetCounts(s) ==
    /\ ref' = s.ref
    /\ queue' = s.queue
    /\ deleteLaterCalls' = s.dl

InPoll == lpc \in {"spawn_poll", "event_poll"}

\* The `&Waker` of the Context is reachable only from the polling thread.
HasCtx(t) == t = LoopThread /\ InPoll

\* Threads inside Waker::wake that may still post an event.
Waking == {t \in Threads : thr[t].pc \in {"set", "post"}}

\* Handles that exist: retained ones, those a thread took for a call in
\* progress, and the one poll_with_qt_waker builds for the poll in progress.
LiveHandles ==
    handles
    + Cardinality({t \in Threads : thr[t].pc # "idle" /\ thr[t].src = "pool"})
    + (IF InPoll THEN 1 ELSE 0)

Payloads == {"p1", "p2"}

\* ConnectionFutureState values; `result` is the payload of Finished,
\* `handle` and `waker` are the fields of Started.
CFState(st, result, handle, waker) ==
    [st |-> st, result |-> result, handle |-> handle, waker |-> waker]

\* wait_on_signal returns ConnectionFuture(Init { sender, signal }).
CFInit == CFState("Init", "none", "none", FALSE)

CFInvalid == CFState("Invalid", "none", "none", FALSE)

\* connections::connect: the registration is live when it succeeds.
RegConnect(ok) == IF ok THEN "connected" ELSE "failed"

\* ConnectionHandle::disconnect: idempotent.
RegDisconnect(c) == IF c = "connected" THEN "disconnected" ELSE c

\* The registry invokes a callback once per emission until disconnected.
RegDelivers(c) == c = "connected"

\* Mutant of CFPoll: the Finished arm puts the state back, so that the
\* payload is handed out by every later poll.
CFPoll_KeepFinished(s, ok, dbg) ==
    CASE s.st = "Finished" ->
           [cf |-> s, res |-> "Ready", out |-> s.result,
            connect |-> FALSE, clone |-> FALSE]
      [] s.st = "Init" /\ dbg /\ ~ok ->
           [cf |-> CFInvalid, res |-> "Panic", out |-> "none",
            connect |-> TRUE, clone |-> FALSE]
      [] s.st = "Init" /\ ~(dbg /\ ~ok) ->
           [cf |-> CFState("Started", "none", IF ok THEN "valid" ELSE "invalid", TRUE),
            res |-> "Pending", out |-> "none", connect |-> TRUE, clone |-> TRUE]
      [] s.st = "Started" ->
           [cf |-> s, res |-> "Pending", out |-> "none",
            connect |-> FALSE, clone |-> FALSE]
      [] s.st = "Invalid" ->
           [cf |-> CFInvalid, res |-> "Panic", out |-> "none",
            connect |-> FALSE, clone |-> FALSE]

\* Mutant of CFPoll: the Started arm calls connect again when its handle
\* is not valid.
CFPoll_Reconnect(s, ok, dbg) ==
    CASE s.st = "Finished" ->
           [cf |-> CFInvalid, res |-> "Ready", out |-> s.result,
            connect |-> FALSE, clone |-> FALSE]
      [] s.st = "Init" /\ dbg /\ ~ok ->
           [cf |-> CFInvalid, res |-> "Panic", out |-> "none",
            connect |-> TRUE, clone |-> FALSE]
      [] s.st = "Init" /\ ~(dbg /\ ~ok) ->
           [cf |-> CFState("Started", "none", IF ok THEN "valid" ELSE "invalid", TRUE),
            res |-> "Pending", out |-> "none", connect |-> TRUE, clone |-> TRUE]
      [] s.st = "Started" ->
           [cf |-> CFState("Started", "none", IF ok THEN "valid" ELSE "invalid", TRUE),
            res |-> "Pending", out |-> "none",
            connect |-> s.handle = "invalid", clone |-> FALSE]
      [] s.st = "Invalid" ->
           [cf |-> CFInvalid, res |-> "Panic", out |-> "none",
            connect |-> FALSE, clone |-> FALSE]

\* Mutant of CFPoll: the Init arm does not capture the waker.
CFPoll_NoClone(s, ok, dbg) ==
    CASE s.st = "Finished" ->
           [cf |-> CFInvalid, res |-> "Ready", out |-> s.result,
            connect |-> FALSE, clone |-> FALSE]
      [] s.st = "Init" /\ dbg /\ ~ok ->
           [cf |-> CFInvalid, res |-> "Panic", out |-> "none",
            connect |-> TRUE, clone |-> FALSE]
      [] s.st = "Init" /\ ~(dbg /\ ~ok) ->
           [cf |-> CFState("Started", "none", IF ok THEN "valid" ELSE "invalid", FALSE),
            res |-> "Pending", out |-> "none", connect |-> TRUE, clone |-> FALSE]
      [] s.st = "Started" ->
           [cf |-> s, res |-> "Pending", out |-> "none",
            connect |-> FALSE, clone |-> FALSE]
      [] s.st = "Invalid" ->
           [cf |-> CFInvalid, res |-> "Panic", out |-> "none",
            connect |-> FALSE, clone |-> FALSE]

\* Mutant of CFPoll: the Started arm does not put the state back.
CFPoll_StartedInvalid(s, ok, dbg) ==
    CASE s.st = "Finished" ->
           [cf |-> CFInvalid, res |-> "Ready", out |-> s.result,
            connect |-> FALSE, clone |-> FALSE]
      [] s.st = "Init" /\ dbg /\ ~ok ->
           [cf |-> CFInvalid, res |-> "Panic", out |-> "none",
            connect |-> TRUE, clone |-> FALSE]
      [] s.st = "Init" /\ ~(dbg /\ ~ok) ->
           [cf |-> CFState("Started", "none", IF ok THEN "valid" ELSE "invalid", TRUE),
            res |-> "Pending", out |-> "none", connect |-> TRUE, clone |-> TRUE]
      [] s.st = "Started" ->
           [cf |-> CFInvalid, res |-> "Pending", out |-> "none",
            connect |-> FALSE, clone |-> FALSE]
      [] s.st = "Invalid" ->
           [cf |-> CFInvalid, res |-> "Panic", out |-> "none",
            connect |-> FALSE, clone |-> FALSE]

\* Mutant of CFPoll: the Finished arm registers the callback again while it
\* hands out the payload.
CFPoll_ConnectOnReady(s, ok, dbg) ==
    CASE s.st = "Finished" ->
           [cf |-> CFInvalid, res |-> "Ready", out |-> s.result,
            connect |-> TRUE, clone |-> FALSE]
      [] s.st = "Init" /\ dbg /\ ~ok ->
           [cf |-> CFInvalid, res |-> "Panic", out |-> "none",
            connect |-> TRUE, clone |-> FALSE]
      [] s.st = "Init" /\ ~(dbg /\ ~ok) ->
           [cf |-> CFState("Started", "none", IF ok THEN "valid" ELSE "invalid", TRUE),
            res |-> "Pending", out |-> "none", connect |-> TRUE, clone |-> TRUE]
      [] s.st = "Started" ->
           [cf |-> s, res |-> "Pending", out |-> "none",
            connect |-> FALSE, clone |-> FALSE]
      [] s.st = "Invalid" ->
           [cf |-> CFInvalid, res |-> "Panic", out |-> "none",
            connect |-> FALSE, clone |-> FALSE]

\* ConnectionFuture::poll on state s; `ok`: connect succeeds; `dbg`: the
\* build has debug assertions.  mem::replace leaves Invalid in place, and
\* the arms that return or panic do not assign the state again.
CFPoll(s, ok, dbg) ==
    CASE s.st = "Finished" ->
           [cf |-> CFInvalid, res |-> "Ready", out |-> s.result,
            connect |-> FALSE, clone |-> FALSE]
      [] s.st = "Init" /\ dbg /\ ~ok ->
           [cf |-> CFInvalid, res |-> "Panic", out |-> "none",
            connect |-> TRUE, clone |-> FALSE]
      [] s.st = "Init" /\ ~(dbg /\ ~ok) ->
           [cf |-> CFState("Started", "none", IF ok THEN "valid" ELSE "invalid", TRUE),
            res |-> "Pending", out |-> "none", connect |-> TRUE, clone |-> TRUE]
      [] s.st = "Started" ->
           [cf |-> s, res |-> "Pending", out |-> "none",
            connect |-> FALSE, clone |-> FALSE]
      [] s.st = "Invalid" ->
           [cf |-> CFInvalid, res |-> "Panic", out |-> "none",
            connect |-> FALSE, clone |-> FALSE]

\* Mutant of CFApply: the callback does not disconnect its registration.
CFApply_NoDisconnect(s, p) ==
    [cf |-> CFState("Finished", p, "none", FALSE),
     disconnect |-> FALSE,
     wake |-> s.st = "Started",
     panic |-> s.st # "Started"]

\* Mutant of CFApply: the callback does not wake the captured waker.
CFApply_NoWake(s, p) ==
    [cf |-> CFState("Finished", p, "none", FALSE),
     disconnect |-> s.st = "Started",
     wake |-> FALSE,
     panic |-> s.st # "Started"]

\* Slot::apply on state s with payload p: the state is replaced by
\* Finished { result } first; a previous state Started is disconnected and
\* its waker woken, any other previous state reaches unreachable!().
CFApply(s, p) ==
    [cf |-> CFState("Finished", p, "none", FALSE),
     disconnect |-> s.st = "Started",
     wake |-> s.st = "Started",
     panic |-> s.st # "Started"]

\* Mutant of CFDrop: the destructor does not disconnect.
CFDrop_NoDisconnect(s) == [disconnect |-> FALSE, dropWaker |-> s.st = "Started"]

\* Mutant of CFDrop: the destructor disconnects in every state.
CFDrop_AlwaysDisconnect(s) == [disconnect |-> TRUE, dropWaker |-> s.st = "Started"]

\* Drop for ConnectionFuture: a Started state disconnects its handle; the
\* fields (the waker of Started) are dropped afterwards.
CFDrop(s) == [disconnect |-> s.st = "Started", dropWaker |-> s.st = "Started"]

SigInit ==
    [last |-> "none",        \* outcome of the last poll
     out |-> "none",         \* payload of the last Poll::Ready
     taskPolls |-> 0,        \* polls of a task spawned to await the future
     clones |-> 0,           \* wakers cloned by ConnectionFuture::poll
     readyCount |-> 0,       \* polls that returned Poll::Ready
     connectCalls |-> 0,     \* calls of connections::connect
     disconnectCalls |-> 0,  \* calls of ConnectionHandle::disconnect
     callbacks |-> 0,        \* invocations of Slot::apply
     first |-> "none",       \* payload of the first emission delivered
     emits |-> 0,            \* emissions of the signal
     emitsAfter |-> 0,       \* emissions after the first delivered one
     emitsAfterDrop |-> 0,   \* emissions after the future was dropped
     wakes |-> 0,            \* wake calls on the waker captured by Started
     pollPanic |-> FALSE,    \* a poll panicked
     cbPanic |-> FALSE,      \* Slot::apply reached unreachable!()
     cbAfterDrop |-> FALSE,  \* Slot::apply ran on a dropped future
     droppedIn |-> "none"]   \* state of the future when it was dropped

Init ==
    /\ shim = "none"
    /\ ref = 0
    /\ woken = FALSE
    /\ completed = FALSE
    /\ future = "none"
    /\ queue = <<>>
    /\ lpc = "start"
    /\ polling = <<>>
    /\ handles = 0
    /\ thr = [t \in Threads |-> Idle]
    /\ ready = FALSE
    /\ deleteLaterCalls = 0
    /\ freeCount = 0
    /\ wakesSince = 0
    /\ postsSince = 0
    /\ owed = FALSE
    /\ cf = CFInit
    /\ cfLife = "live"
    /\ conn = "none"
    /\ sig = SigInit
    /\ cbpc = 0
    /\ pollPanic = FALSE

\* Mutant of ExecuteAsync: the shim is created without its own reference
\* (no `w->ref++` after `new Waker`).
ExecuteAsync_NoOwnRef ==
    /\ lpc = "start"
    /\ shim' = "live"
    /\ future' = "boxed"
    /\ ref' = IncRef(0)
    /\ woken' = FALSE
    /\ completed' = FALSE
    /\ polling' = Append(polling, LoopThread)
    /\ lpc' = "spawn_poll"
    /\ UNCHANGED <<queue, handles, thr, histVars>>
    /\ UNCHANGED <<sigVars, extVars>>

\* execute_async up to the call of future.poll inside poll_with_qt_waker:
\* Box::into_raw, `new Waker; w->ref++; w->future = f`, then `waker->ref++`.
ExecuteAsync ==
    /\ lpc = "start"
    /\ shim' = "live"
    /\ future' = "boxed"
    /\ ref' = IncRef(IncRef(0))
    /\ woken' = FALSE
    /\ completed' = FALSE
    /\ polling' = Append(polling, LoopThread)
    /\ lpc' = "spawn_poll"
    /\ UNCHANGED <<queue, handles, thr, histVars>>
    /\ UNCHANGED <<sigVars, extVars>>

\* Mutant of ExecuteAsyncReturn: execute_async posts a notification to the
\* shim when the first poll returned Pending.
ExecuteAsyncReturn_Repost(r) ==
    /\ lpc = "spawn_poll"
    /\ thr[LoopThread].pc = "idle"
    /\ LET s1 == Deref(Counts) IN
       SetCounts([s1 EXCEPT !.queue =
                    IF r = "Pending" THEN Append(@, "User") ELSE @])
    /\ polling' = SubSeq(polling, 1, Len(polling) - 1)
    /\ lpc' = "idle"
    /\ ready' = (ready \/ r = "Ready")
    /\ UNCHANGED <<shim, woken, completed, future, handles, thr,
                   freeCount, wakesSince, postsSince, owed>>
    /\ UNCHANGED <<sigVars, extVars>>

\* The first poll returns r; poll_with_qt_waker drops its Waker (deref) and
\* execute_async discards the bool it returns.
ExecuteAsyncReturn(r) ==
    /\ lpc = "spawn_poll"
    /\ thr[LoopThread].pc = "idle"
    /\ SetCounts(Deref(Counts))
    /\ polling' = SubSeq(polling, 1, Len(polling) - 1)
    /\ lpc' = "idle"
    /\ ready' = (ready \/ r = "Ready")
    /\ UNCHANGED <<shim, woken, completed, future, handles, thr,
                   freeCount, wakesSince, postsSince, owed>>
    /\ UNCHANGED <<sigVars, extVars>>

\* Mutant of CustomEvent: the handler does not clear `woken`.
CustomEvent_NoClear ==
    /\ lpc = "idle"
    /\ thr[LoopThread].pc = "idle"
    /\ shim = "live"
    /\ queue # <<>>
    /\ Head(queue) = "User"
    /\ queue' = Tail(queue)
    /\ wakesSince' = 0
    /\ postsSince' = 0
    /\ IF completed
       THEN UNCHANGED <<ref, polling, lpc, owed>>
       ELSE /\ ref' = IncRef(ref)
            /\ polling' = Append(polling, LoopThread)
            /\ lpc' = "event_poll"
            /\ owed' = FALSE
    /\ UNCHANGED <<shim, woken, completed, future, handles, thr,
                   ready, deleteLaterCalls, freeCount>>
    /\ UNCHANGED <<sigVars, extVars>>

\* Waker::customEvent up to the call of future.poll: `woken = false;
\* if (completed) return;` then poll_with_qt_waker's `waker->ref++`.
CustomEvent ==
    /\ lpc = "idle"
    /\ thr[LoopThread].pc = "idle"
    /\ shim = "live"
    /\ queue # <<>>
    /\ Head(queue) = "User"
    /\ queue' = Tail(queue)
    /\ woken' = FALSE
    /\ wakesSince' = 0
    /\ postsSince' = 0
    /\ IF completed
       THEN UNCHANGED <<ref, polling, lpc, owed>>
       ELSE /\ ref' = IncRef(ref)
            /\ polling' = Append(polling, LoopThread)
            /\ lpc' = "event_poll"
            /\ owed' = FALSE
    /\ UNCHANGED <<shim, completed, future, handles, thr,
                   ready, deleteLaterCalls, freeCount>>
    /\ UNCHANGED <<sigVars, extVars>>

\* Mutant of CustomEventReturn: the shim's own reference is released after
\* every poll, not only after one that returned Ready.
CustomEventReturn_AlwaysDeref(r) ==
    /\ lpc = "event_poll"
    /\ thr[LoopThread].pc = "idle"
    /\ SetCounts(Deref(Deref(Counts)))
    /\ completed' = (r = "Ready")
    /\ polling' = SubSeq(polling, 1, Len(polling) - 1)
    /\ lpc' = "idle"
    /\ ready' = (ready \/ r = "Ready")
    /\ UNCHANGED <<shim, woken, future, handles, thr,
                   freeCount, wakesSince, postsSince, owed>>
    /\ UNCHANGED <<sigVars, extVars>>

\* The poll made by customEvent returns r: poll_with_qt_waker drops its
\* Waker (deref), then `completed = r; if (completed) deref();`.
CustomEventReturn(r) ==
    /\ lpc = "event_poll"
    /\ thr[LoopThread].pc = "idle"
    /\ LET s1 == Deref(Counts)
           s2 == IF r = "Ready" THEN Deref(s1) ELSE s1
       IN SetCounts(s2)
    /\ completed' = (r = "Ready")
    /\ polling' = SubSeq(polling, 1, Len(polling) - 1)
    /\ lpc' = "idle"
    /\ ready' = (ready \/ r = "Ready")
    /\ UNCHANGED <<shim, woken, future, handles, thr,
                   freeCount, wakesSince, postsSince, owed>>
    /\ UNCHANGED <<sigVars, extVars>>

\* The loop handles the DeferredDelete event: ~Waker drops the boxed future;
\* ~QObject removes the events still posted to the object.
DeferredDelete ==
    /\ lpc = "idle"
    /\ thr[LoopThread].pc = "idle"
    /\ shim = "live"
    /\ queue # <<>>
    /\ Head(queue) = "DeferredDelete"
    /\ shim' = "destroyed"
    /\ future' = "freed"
    /\ freeCount' = freeCount + 1
    /\ queue' = <<>>
    /\ UNCHANGED <<ref, woken, completed, lpc, polling, handles, thr,
                   ready, deleteLaterCalls, wakesSince, postsSince, owed>>
    /\ UNCHANGED <<sigVars, extVars>>

\* Mutant of Clone: the vtable clone returns the pointer without `s->ref++`.
Clone_NoIncRef(t, src) ==
    /\ shim = "live"
    /\ lpc # "start"
    /\ thr[t].pc = "idle"
    /\ IF src = "ctx" THEN HasCtx(t) ELSE handles > 0
    /\ handles < MaxHandles
    /\ handles' = handles + 1
    /\ UNCHANGED <<shim, ref, woken, completed, future, queue, lpc, polling, thr, histVars>>
    /\ UNCHANGED <<sigVars, extVars>>

\* QTWAKERVTABLE clone: `s->ref++; return s;`
Clone(t, src) ==
    /\ shim = "live"
    /\ lpc # "start"
    /\ thr[t].pc = "idle"
    /\ IF src = "ctx" THEN HasCtx(t) ELSE handles > 0
    /\ handles < MaxHandles
    /\ ref' = IncRef(ref)
    /\ handles' = handles + 1
    /\ UNCHANGED <<shim, woken, completed, future, queue, lpc, polling, thr, histVars>>
    /\ UNCHANGED <<sigVars, extVars>>

\* QTWAKERVTABLE drop: `s->deref();`
DropHandle(t) ==
    /\ shim = "live"
    /\ thr[t].pc = "idle"
    /\ handles > 0
    /\ handles' = handles - 1
    /\ SetCounts(Deref(Counts))
    /\ UNCHANGED <<shim, woken, completed, future, lpc, polling, thr,
                   ready, freeCount, wakesSince, postsSince, owed>>
    /\ UNCHANGED <<sigVars, extVars>>

\* Mutant of WakeBegin: Waker::wake without `if (woken) return;`.
WakeBegin_NoCheck(t, kind, src) ==
    /\ shim = "live"
    /\ thr[t].pc = "idle"
    /\ Len(queue) + Cardinality(Waking) < MaxQueue
    /\ IF src = "ctx"
       THEN HasCtx(t) /\ kind = "ref" /\ UNCHANGED handles
       ELSE handles > 0 /\ handles' = handles - 1
    /\ thr' = [thr EXCEPT ![t] = [pc |-> "set", kind |-> kind, src |-> src]]
    /\ wakesSince' = Sat(wakesSince)
    /\ owed' = TRUE
    /\ UNCHANGED <<shim, ref, woken, completed, future, queue, lpc, polling,
                   ready, deleteLaterCalls, freeCount, postsSince>>
    /\ UNCHANGED <<sigVars, extVars>>

\* Entry of QTWAKERVTABLE wake (kind "drop") or wake_by_ref (kind "ref"):
\* Waker::wake reads `woken` (`if (woken) return;`).
WakeBegin(t, kind, src) ==
    /\ shim = "live"
    /\ thr[t].pc = "idle"
    /\ Len(queue) + Cardinality(Waking) < MaxQueue
    /\ IF src = "ctx"
       THEN HasCtx(t) /\ kind = "ref" /\ UNCHANGED handles
       ELSE handles > 0 /\ handles' = handles - 1
    /\ thr' = [thr EXCEPT ![t] =
                 [pc |-> IF woken THEN "ret" ELSE "set", kind |-> kind, src |-> src]]
    /\ wakesSince' = Sat(wakesSince)
    /\ owed' = TRUE
    /\ UNCHANGED <<shim, ref, woken, completed, future, queue, lpc, polling,
                   ready, deleteLaterCalls, freeCount, postsSince>>
    /\ UNCHANGED <<sigVars, extVars>>

\* Mutant of WakeSet: Waker::wake posts the event without `woken = true;`.
WakeSet_NoSet(t) ==
    /\ shim = "live"
    /\ thr[t].pc = "set"
    /\ thr' = [thr EXCEPT ![t].pc = "post"]
    /\ UNCHANGED <<shim, ref, woken, completed, future, queue, lpc, polling, handles, histVars>>
    /\ UNCHANGED <<sigVars, extVars>>

\* Waker::wake: `woken = true;`
WakeSet(t) ==
    /\ shim = "live"
    /\ thr[t].pc = "set"
    /\ woken' = TRUE
    /\ thr' = [thr EXCEPT ![t].pc = "post"]
    /\ UNCHANGED <<shim, ref, completed, future, queue, lpc, polling, handles, histVars>>
    /\ UNCHANGED <<sigVars, extVars>>

\* Mutant of WakePost: Waker::wake polls the future on the calling thread
\* instead of posting an event to the shim.
WakePost_PollInline(t) ==
    /\ shim = "live"
    /\ thr[t].pc = "post"
    /\ polling' = Append(polling, t)
    /\ postsSince' = Sat(postsSince)
    /\ thr' = [thr EXCEPT ![t].pc = "ret"]
    /\ UNCHANGED <<shim, ref, woken, completed, future, queue, lpc, handles,
                   ready, deleteLaterCalls, freeCount, wakesSince, owed>>
    /\ UNCHANGED <<sigVars, extVars>>

\* Waker::wake: `QApplication::postEvent(this, new QEvent(QEvent::User));`
WakePost(t) ==
    /\ shim = "live"
    /\ thr[t].pc = "post"
    /\ queue' = Append(queue, "User")
    /\ postsSince' = Sat(postsSince)
    /\ thr' = [thr EXCEPT ![t].pc = "ret"]
    /\ UNCHANGED <<shim, ref, woken, completed, future, lpc, polling, handles,
                   ready, deleteLaterCalls, freeCount, wakesSince, owed>>
    /\ UNCHANGED <<sigVars, extVars>>

\* After Waker::wake returned: the wake entry calls `s->deref()`, the
\* wake_by_ref entry leaves the handle with its holder.
WakeReturn(t) ==
    /\ shim = "live"
    /\ thr[t].pc = "ret"
    /\ thr' = [thr EXCEPT ![t] = Idle]
    /\ IF thr[t].kind = "drop"
       THEN SetCounts(Deref(Counts)) /\ UNCHANGED handles
       ELSE /\ UNCHANGED <<ref, queue, deleteLaterCalls>>
            /\ handles' = IF thr[t].src = "pool" THEN handles + 1 ELSE handles
    /\ UNCHANGED <<shim, woken, completed, future, lpc, polling,
                   ready, freeCount, wakesSince, postsSince, owed>>
    /\ UNCHANGED <<sigVars, extVars>>

\* A caller polls the wait_on_signal future.
SigPoll(ok, dbg) ==
    /\ cfLife = "live"
    /\ LET p == CFPoll(cf, ok, dbg) IN
       /\ cf' = p.cf
       /\ conn' = IF p.connect THEN RegConnect(ok) ELSE conn
       /\ sig' = [sig EXCEPT
                    !.last = p.res,
                    !.out = IF p.res = "Ready" THEN p.out ELSE @,
                    !.readyCount = IF p.res = "Ready" THEN @ + 1 ELSE @,
                    !.connectCalls = IF p.connect THEN @ + 1 ELSE @,
                    !.clones = IF p.clone THEN @ + 1 ELSE @,
                    !.pollPanic = @ \/ p.res = "Panic"]
    /\ UNCHANGED <<cfLife, shimVars, histVars, extVars>>

\* The source emits the signal with payload p; the registry invokes
\* Slot::apply when the registration is live.
SigEmit(p) ==
    /\ sig.emits < MaxEmits
    /\ LET delivered == RegDelivers(conn)
           a == CFApply(cf, p)
           s1 == [sig EXCEPT
                    !.emits = @ + 1,
                    !.emitsAfter = IF sig.callbacks > 0 THEN @ + 1 ELSE @,
                    !.emitsAfterDrop = IF cfLife = "dropped" THEN @ + 1 ELSE @]
       IN
       IF ~delivered
       THEN sig' = s1 /\ UNCHANGED <<cf, conn>>
       ELSE IF cfLife = "dropped"
       THEN /\ sig' = [s1 EXCEPT !.callbacks = @ + 1, !.cbAfterDrop = TRUE]
            /\ UNCHANGED <<cf, conn>>
       ELSE /\ cf' = a.cf
            /\ conn' = IF a.disconnect THEN RegDisconnect(conn) ELSE conn
            /\ sig' = [s1 EXCEPT
                         !.callbacks = @ + 1,
                         !.first = IF sig.callbacks = 0 THEN p ELSE @,
                         !.disconnectCalls = IF a.disconnect THEN @ + 1 ELSE @,
                         !.wakes = IF a.wake THEN @ + 1 ELSE @,
                         !.cbPanic = @ \/ a.panic]
    /\ UNCHANGED <<cfLife, shimVars, histVars, extVars>>

\* The wait_on_signal future is dropped.
SigDrop ==
    /\ cfLife = "live"
    /\ cfLife' = "dropped"
    /\ LET d == CFDrop(cf) IN
       /\ conn' = IF d.disconnect THEN RegDisconnect(conn) ELSE conn
       /\ sig' = [sig EXCEPT
                    !.droppedIn = cf.st,
                    !.disconnectCalls = IF d.disconnect THEN @ + 1 ELSE @]
    /\ UNCHANGED <<cf, shimVars, histVars, extVars>>

NextSignal ==
    \/ \E ok \in BOOLEAN, dbg \in BOOLEAN : SigPoll(ok, dbg)
    \/ \E p \in Payloads : SigEmit(p)
    \/ SigDrop

SpecSignal == Init /\ [][NextSignal]_vars

\* Mutant of ApplyBody: the callback wakes the waker before it disconnects.
ApplyBody_WakeFirst == <<"wake", "disconnect">>

\* The statements Slot::apply runs on the fields of the Started state it
\* took out with mem::replace: `handle.disconnect(); waker.wake();`
ApplyBody == <<"disconnect", "wake">>

\* The source emits the signal with payload p and the registry invokes
\* Slot::apply when the registration is live: mem::replace stores
\* Finished { result } and hands back the previous state; Started enters
\* the body, any other state reaches unreachable!().
ApplyBegin(p) ==
    /\ cbpc = 0
    /\ cfLife = "live"
    /\ sig.emits < MaxEmits
    /\ LET a == CFApply(cf, p)
           s1 == [sig EXCEPT
                    !.emits = @ + 1,
                    !.emitsAfter = IF sig.callbacks > 0 THEN @ + 1 ELSE @]
       IN
       IF ~RegDelivers(conn)
       THEN sig' = s1 /\ UNCHANGED <<cf, cbpc>>
       ELSE /\ cf' = a.cf
            /\ cbpc' = IF a.panic THEN 0 ELSE 1
            /\ sig' = [s1 EXCEPT
                         !.callbacks = @ + 1,
                         !.first = IF sig.callbacks = 0 THEN p ELSE @,
                         !.cbPanic = @ \/ a.panic]
    /\ UNCHANGED <<cfLife, conn, pollPanic, shimVars, histVars>>

\* Slot::apply: `handle.disconnect();`
ApplyDisconnect ==
    /\ cbpc \in 1..Len(ApplyBody)
    /\ ApplyBody[cbpc] = "disconnect"
    /\ conn' = RegDisconnect(conn)
    /\ sig' = [sig EXCEPT !.disconnectCalls = @ + 1]
    /\ cbpc' = IF cbpc = Len(ApplyBody) THEN 0 ELSE cbpc + 1
    /\ UNCHANGED <<cf, cfLife, pollPanic, shimVars, histVars>>

\* Slot::apply: `waker.wake();` (the captured waker is consumed).
ApplyWake ==
    /\ cbpc \in 1..Len(ApplyBody)
    /\ ApplyBody[cbpc] = "wake"
    /\ sig' = [sig EXCEPT !.wakes = @ + 1]
    /\ cbpc' = IF cbpc = Len(ApplyBody) THEN 0 ELSE cbpc + 1
    /\ UNCHANGED <<cf, cfLife, conn, pollPanic, shimVars, histVars>>

\* Slot::apply runs on the thread that emits; the owner of the future polls
\* or drops it outside the callback.
NextApply ==
    \/ \E p \in Payloads : ApplyBegin(p)
    \/ ApplyDisconnect
    \/ ApplyWake
    \/ cbpc = 0 /\ \E ok \in BOOLEAN, dbg \in BOOLEAN : SigPoll(ok, dbg)
    \/ cbpc = 0 /\ SigDrop

\* The signal-wait future with the callback taken statement by statement.
SpecApply == Init /\ [][NextApply]_vars

PollResults == {"Pending", "Ready"}
WakeKinds == {"ref", "drop"}
HandleSources == {"pool", "ctx"}

LoopStep ==
    \/ ExecuteAsync
    \/ \E r \in PollResults : ExecuteAsyncReturn(r)
    \/ CustomEvent
    \/ \E r \in PollResults : CustomEventReturn(r)
    \/ DeferredDelete

WakeStep(t) ==
    \/ WakeSet(t)
    \/ WakePost(t)
    \/ WakeReturn(t)

HandleStep(t) ==
    \/ \E src \in HandleSources : Clone(t, src)
    \/ DropHandle(t)
    \/ \E kind \in WakeKinds, src \in HandleSources : WakeBegin(t, kind, src)

Next ==
    \/ LoopStep
    \/ \E t \in Threads : HandleStep(t)
    \/ \E t \in Threads : WakeStep(t)

Spec == Init /\ [][Next]_vars

\* Vtable calls issued one after another: a thread enters a call only while
\* no other thread is inside one.
SeqHandleStep(t) ==
    /\ \A u \in Threads \ {t} : thr[u].pc = "idle"
    /\ HandleStep(t)

NextSeq ==
    \/ LoopStep
    \/ \E t \in Threads : SeqHandleStep(t)
    \/ \E t \in Threads : WakeStep(t)

SpecSeq == Init /\ [][NextSeq]_vars

\* The loop keeps dispatching and every thread finishes the call it is in.
FairSpec ==
    /\ Init
    /\ [][Next]_vars
    /\ SF_vars(LoopStep)
    /\ \A t \in Threads : WF_vars(WakeStep(t))

\* Waker handles of a task that awaits one wait_on_signal future: those of
\* LiveHandles and the one captured in the Started state.
E2EHandles == LiveHandles + (IF cf.waker THEN 1 ELSE 0)

\* The history of one poll of the awaited future made by the spawned task.
E2ESig(p) ==
    [sig EXCEPT
       !.last = p.res,
       !.out = IF p.res = "Ready" THEN p.out ELSE @,
       !.readyCount = IF p.res = "Ready" THEN @ + 1 ELSE @,
       !.connectCalls = IF p.connect THEN @ + 1 ELSE @,
       !.clones = IF p.clone THEN @ + 1 ELSE @,
       !.pollPanic = @ \/ p.res = "Panic",
       !.taskPolls = @ + 1,
       !.droppedIn = IF p.res = "Ready" THEN p.cf.st ELSE @]

\* The first poll of `async { let p = wait_on_signal(..).await; .. }` made
\* by execute_async: the task polls the ConnectionFuture, whose Init arm
\* clones the waker of the context (`s->ref++`); then poll_with_qt_waker
\* drops its Waker, on return and on unwinding alike, and execute_async
\* discards the result.
E2ESpawnPollReturn(ok, dbg) ==
    /\ lpc = "spawn_poll"
    /\ thr[LoopThread].pc = "idle"
    /\ cfLife = "live"
    /\ LET p == CFPoll(cf, ok, dbg)
           c1 == IF p.clone THEN [Counts EXCEPT !.ref = IncRef(@)] ELSE Counts
       IN
       /\ cf' = p.cf
       /\ conn' = IF p.connect THEN RegConnect(ok) ELSE conn
       /\ sig' = E2ESig(p)
       /\ cfLife' = IF p.res = "Ready" THEN "dropped" ELSE cfLife
       /\ ready' = (ready \/ p.res = "Ready")
       /\ pollPanic' = (pollPanic \/ p.res = "Panic")
       /\ SetCounts(Deref(c1))
    /\ polling' = SubSeq(polling, 1, Len(polling) - 1)
    /\ lpc' = "idle"
    /\ UNCHANGED <<shim, woken, completed, future, handles, thr,
                   freeCount, wakesSince, postsSince, owed, cbpc>>

\* A poll of that task made by customEvent, returning Pending or Ready: on
\* Ready the task ends and drops the ConnectionFuture; poll_with_qt_waker
\* drops its Waker, then `completed = r; if (completed) deref();`.
E2EEventPollReturn(ok, dbg) ==
    /\ lpc = "event_poll"
    /\ thr[LoopThread].pc = "idle"
    /\ cfLife = "live"
    /\ LET p == CFPoll(cf, ok, dbg)
           c1 == IF p.clone THEN [Counts EXCEPT !.ref = IncRef(@)] ELSE Counts
           c2 == Deref(c1)
       IN
       /\ p.res # "Panic"
       /\ cf' = p.cf
       /\ conn' = IF p.connect THEN RegConnect(ok) ELSE conn
       /\ sig' = E2ESig(p)
       /\ cfLife' = IF p.res = "Ready" THEN "dropped" ELSE cfLife
       /\ ready' = (ready \/ p.res = "Ready")
       /\ completed' = (p.res = "Ready")
       /\ SetCounts(IF p.res = "Ready" THEN Deref(c2) ELSE c2)
    /\ polling' = SubSeq(polling, 1, Len(polling) - 1)
    /\ lpc' = "idle"
    /\ UNCHANGED <<shim, woken, future, handles, thr,
                   freeCount, wakesSince, postsSince, owed, extVars>>

\* The source emits the signal with payload p on the loop thread, outside
\* a poll.  A live registration runs Slot::apply: Finished { result },
\* disconnect, then `waker.wake()` on the captured Qt waker, which enters
\* the vtable's wake (Waker::wake, then deref).
E2EEmit(p) ==
    /\ lpc \in {"start", "idle"}
    /\ thr[LoopThread].pc = "idle"
    /\ sig.emits < MaxEmits
    /\ LET a == CFApply(cf, p)
           s1 == [sig EXCEPT
                    !.emits = @ + 1,
                    !.emitsAfter = IF sig.callbacks > 0 THEN @ + 1 ELSE @,
                    !.emitsAfterDrop = IF cfLife = "dropped" THEN @ + 1 ELSE @]
       IN
       IF ~RegDelivers(conn)
       THEN /\ sig' = s1
            /\ UNCHANGED <<cf, conn, thr, wakesSince, owed>>
       ELSE /\ cf' = a.cf
            /\ conn' = IF a.disconnect THEN RegDisconnect(conn) ELSE conn
            /\ sig' = [s1 EXCEPT
                         !.callbacks = @ + 1,
                         !.first = IF sig.callbacks = 0 THEN p ELSE @,
                         !.disconnectCalls = IF a.disconnect THEN @ + 1 ELSE @,
                         !.wakes = IF a.wake THEN @ + 1 ELSE @,
                         !.cbPanic = @ \/ a.panic,
                         !.cbAfterDrop = @ \/ cfLife = "dropped"]
            /\ IF a.wake
               THEN /\ thr' = [thr EXCEPT ![LoopThread] =
                                 [pc |-> IF woken THEN "ret" ELSE "set",
                                  kind |-> "drop", src |-> "pool"]]
                    /\ wakesSince' = Sat(wakesSince)
                    /\ owed' = TRUE
               ELSE UNCHANGED <<thr, wakesSince, owed>>
    /\ UNCHANGED <<shim, ref, woken, completed, future, queue, lpc, polling, handles,
                   ready, deleteLaterCalls, freeCount, postsSince, cfLife, extVars>>

NextE2E ==
    \/ ExecuteAsync
    \/ \E ok \in BOOLEAN, dbg \in BOOLEAN : E2ESpawnPollReturn(ok, dbg)
    \/ CustomEvent
    \/ \E ok \in BOOLEAN, dbg \in BOOLEAN : E2EEventPollReturn(ok, dbg)
    \/ DeferredDelete
    \/ \E p \in Payloads : E2EEmit(p)
    \/ WakeStep(LoopThread)

\* execute_async(async { let p = wait_on_signal(..).await; .. }) with the
\* signal emitted on the loop thread.
SpecE2E == Init /\ [][NextE2E]_vars

\* What a panic that reaches the C++ frame of customEvent can do: the
\* process aborts, or the unwinding passes through the C++ frames.
PanicOutcomes == {"abort", "unwind"}

\* The first poll panics: the unwinding drops the Waker built by
\* poll_with_qt_waker (deref) and leaves execute_async towards its caller;
\* nothing catches it and nothing writes `completed`.
ExecuteAsyncPanic ==
    /\ lpc = "spawn_poll"
    /\ thr[LoopThread].pc = "idle"
    /\ SetCounts(Deref(Counts))
    /\ polling' = SubSeq(polling, 1, Len(polling) - 1)
    /\ lpc' = "idle"
    /\ pollPanic' = TRUE
    /\ UNCHANGED <<shim, woken, completed, future, handles, thr,
                   ready, freeCount, wakesSince, postsSince, owed>>
    /\ UNCHANGED <<sigVars, cbpc>>

\* The poll made by customEvent panics inside the rust! closure: either the
\* process aborts at the language boundary, or the unwinding drops the
\* Waker built by poll_with_qt_waker (deref) and skips the assignment of
\* `completed` and the `if (completed) deref();` that follows it.
CustomEventPanic(o) ==
    /\ lpc = "event_poll"
    /\ thr[LoopThread].pc = "idle"
    /\ pollPanic' = TRUE
    /\ polling' = SubSeq(polling, 1, Len(polling) - 1)
    /\ IF o = "abort"
       THEN /\ lpc' = "aborted"
            /\ shim' = "aborted"
            /\ UNCHANGED <<ref, queue, deleteLaterCalls>>
       ELSE /\ lpc' = "idle"
            /\ SetCounts(Deref(Counts))
            /\ UNCHANGED shim
    /\ UNCHANGED <<woken, completed, future, handles, thr,
                   ready, freeCount, wakesSince, postsSince, owed>>
    /\ UNCHANGED <<sigVars, cbpc>>

PanicStep ==
    \/ ExecuteAsyncPanic
    \/ \E o \in PanicOutcomes : CustomEventPanic(o)

NextPanic ==
    \/ LoopStep
    \/ PanicStep
    \/ \E t \in Threads : HandleStep(t)
    \/ \E t \in Threads : WakeStep(t)

\* The executor driving a future whose poll may panic.
SpecPanic == Init /\ [][NextPanic]_vars

Quiescent ==
    /\ lpc = "idle"
    /\ queue = <<>>
    /\ \A t \in Threads : thr[t].pc = "idle"

(***************************************************************************)
(* C1: post-completion silence.  Once any poll of the task (the first poll *)
(* made by execute_async included) has returned Ready, no poll of the task *)
(* is in progress ever again.                                              *)
(***************************************************************************)
C1_PostCompletionSilence == ready => polling = <<>>

(***************************************************************************)
(* C2: wake coalescing.  With wake calls issued one after another on a     *)
(* pending task, a batch of N >= 1 calls made since the loop last handled  *)
(* a notification has posted exactly one notification, and the loop's      *)
(* handling of it starts exactly one poll and leaves none queued.          *)
(***************************************************************************)
C2_WakeCoalescing ==
    /\ [](shim = "live" /\ wakesSince >= 1 /\ Waking = {}
            => postsSince = 1 /\ UserEvents(queue) = 1)
    /\ [][CustomEvent /\ wakesSince >= 1 /\ ~ready
            => /\ Len(polling') = Len(polling) + 1
               /\ UserEvents(queue') = 0]_vars

C2_Witness ==
    /\ ~ready
    /\ wakesSince = MaxWakes
    /\ postsSince = 1
    /\ UserEvents(queue) = 1
    /\ Waking = {}

(***************************************************************************)
(* C3: no missed wakeup.  While `completed` is false, every call of        *)
(* Waker::wake is followed by the start of a poll (or by completion),      *)
(* given that the loop keeps dispatching; this covers a wake issued while  *)
(* the poll handler is running.                                            *)
(***************************************************************************)
C3_NoMissedWakeup == (owed /\ ~completed) ~> (~owed \/ completed)

C3_Witness ==
    /\ lpc = "event_poll"
    /\ owed
    /\ postsSince >= 1
    /\ UserEvents(queue) >= 1

(***************************************************************************)
(* C4: single deallocation.  The boxed future is dropped at most once,     *)
(* deleteLater is called at most once and only with ref = 0, and when it   *)
(* has been called or the future is dropped no waker handle exists and no  *)
(* poll is in progress.                                                    *)
(***************************************************************************)
C4_SingleDeallocation ==
    /\ freeCount <= 1
    /\ deleteLaterCalls <= 1
    /\ (deleteLaterCalls >= 1 \/ DeleteEvents(queue) >= 1 \/ future = "freed")
         => ref = 0 /\ LiveHandles = 0 /\ polling = <<>>

C4_Witness ==
    /\ future = "freed"
    /\ freeCount = 1
    /\ deleteLaterCalls = 1

(***************************************************************************)
(* C5: a completed task is reclaimed.  When a poll has returned Ready,     *)
(* every waker handle is dropped and nothing is queued or in progress, the *)
(* boxed future has been deallocated.                                      *)
(***************************************************************************)
C5_CompletedTaskReclaimed ==
    (ready /\ LiveHandles = 0 /\ Quiescent) => future = "freed"

(***************************************************************************)
(* C6: no leak of a task that is never woken again.  When the last poll    *)
(* returned Pending, no wake was called since, every waker handle is       *)
(* dropped and nothing is queued or in progress, the boxed future has been *)
(* deallocated.                                                            *)
(***************************************************************************)
C6_NoLeakWhenNeverWoken ==
    (shim # "none" /\ ~ready /\ ~owed /\ LiveHandles = 0 /\ Quiescent)
        => future = "freed"

(***************************************************************************)
(* C7: polls are serialized on the loop thread.  At most one poll of the   *)
(* task is in progress, and it runs on the thread that called              *)
(* execute_async.                                                          *)
(***************************************************************************)
C7_PollsSerializedOnLoop ==
    /\ Len(polling) <= 1
    /\ \A i \in 1..Len(polling) : polling[i] = LoopThread

C7_Witness ==
    /\ polling = <<LoopThread>>
    /\ lpc = "event_poll"
    /\ \E t \in Workers : thr[t].pc \in {"set", "post"}

(***************************************************************************)
(* C8: concurrent wake is coalesced.  With wake calls of several threads   *)
(* interleaved, at most one notification is queued for the shim at any     *)
(* moment.                                                                 *)
(***************************************************************************)
C8_ConcurrentWakeCoalesced == UserEvents(queue) <= 1

(***************************************************************************)
(* C9: signal-wait exactly-once.  The callback runs at most once and never *)
(* panics; a Finished state holds the payload of the first emission        *)
(* delivered, the next poll returns Ready with that payload, Ready is      *)
(* returned at most once, and an emission after the first delivered one    *)
(* invokes no callback and leaves the state of the future unchanged.       *)
(***************************************************************************)
C9_SignalWaitExactlyOnce ==
    /\ [](/\ sig.readyCount <= 1
          /\ sig.callbacks <= 1
          /\ ~sig.cbPanic
          /\ (cf.st = "Finished" => cf.result = sig.first)
          /\ (sig.readyCount = 1 => sig.out = sig.first /\ sig.first \in Payloads))
    /\ [][(\E ok \in BOOLEAN, dbg \in BOOLEAN : SigPoll(ok, dbg)) /\ cf.st = "Finished"
            => sig'.last = "Ready" /\ sig'.out = sig.first]_vars
    /\ [][(\E p \in Payloads : SigEmit(p)) /\ sig.callbacks >= 1
            => cf' = cf /\ sig'.callbacks = sig.callbacks]_vars

C9_Witness ==
    /\ sig.readyCount = 1
    /\ sig.out = sig.first
    /\ sig.emitsAfter >= 1
    /\ sig.last = "Ready"

(***************************************************************************)
(* C10: early drop unregisters.  A future dropped in state Started has     *)
(* called disconnect; once the future is dropped the registry holds no     *)
(* live registration of it and no emission invokes its callback.           *)
(***************************************************************************)
C10_EarlyDropUnregisters ==
    /\ cfLife = "dropped" => ~RegDelivers(conn)
    /\ sig.droppedIn = "Started" => sig.disconnectCalls >= 1
    /\ ~sig.cbAfterDrop

C10_Witness ==
    /\ cfLife = "dropped"
    /\ sig.droppedIn = "Started"
    /\ conn = "disconnected"
    /\ sig.callbacks = 0
    /\ sig.emitsAfterDrop >= 1

\* A step that polls the wait_on_signal future directly.
SigPollStep == \E ok \in BOOLEAN, dbg \in BOOLEAN : SigPoll(ok, dbg)

(***************************************************************************)
(* C11: dropping the future in state Init or Finished makes no connect and *)
(* no disconnect call and leaves the registration as it was.               *)
(***************************************************************************)
C11_DropInitFinishedNoOp ==
    [][SigDrop /\ cf.st \in {"Init", "Finished"}
        => /\ conn' = conn
           /\ sig'.connectCalls = sig.connectCalls
           /\ sig'.disconnectCalls = sig.disconnectCalls]_vars

C11_Witness ==
    /\ cfLife = "dropped"
    /\ sig.droppedIn = "Finished"
    /\ sig.disconnectCalls = 1
    /\ conn = "disconnected"

(***************************************************************************)
(* C14 as stated: once connect has returned an invalid handle, connect was *)
(* called once and the last poll returned Pending.                         *)
(***************************************************************************)
C14_FailedRegistrationStaysPending ==
    conn = "failed" => sig.connectCalls = 1 /\ sig.last = "Pending"

(***************************************************************************)
(* C14 amended: once connect has returned an invalid handle, connect is    *)
(* never called again and the future never becomes Ready.  Without debug   *)
(* assertions the state is Started with the invalid handle and every poll  *)
(* returns Pending; with debug assertions the first poll panics, the state *)
(* is left Invalid and every later poll panics.                            *)
(***************************************************************************)
C14_FailedRegistrationPermanent ==
    /\ [](conn = "failed"
            => /\ sig.connectCalls = 1
               /\ sig.readyCount = 0
               /\ sig.callbacks = 0
               /\ \/ cf.st = "Started" /\ cf.handle = "invalid" /\ sig.last = "Pending"
                  \/ cf.st = "Invalid" /\ sig.last = "Panic")
    /\ [][SigPollStep /\ conn = "failed"
            => /\ cf' = cf
               /\ conn' = conn
               /\ sig'.connectCalls = sig.connectCalls
               /\ sig'.last = IF cf.st = "Started" THEN "Pending" ELSE "Panic"]_vars

C14_Witness ==
    /\ conn = "failed"
    /\ cf.st = "Started"
    /\ sig.last = "Pending"
    /\ sig.emits >= 1
    /\ cfLife = "live"

(***************************************************************************)
(* C15: a poll made after a poll returned Ready panics: it returns no      *)
(* payload, does not return Pending and does not call connect.             *)
(***************************************************************************)
C15_PollAfterReadyPanics ==
    [][SigPollStep /\ sig.readyCount >= 1
        => /\ sig'.last = "Panic"
           /\ sig'.readyCount = sig.readyCount
           /\ sig'.connectCalls = sig.connectCalls
           /\ conn' = conn]_vars

C15_Witness ==
    /\ sig.readyCount = 1
    /\ sig.last = "Panic"
    /\ cfLife = "live"

(***************************************************************************)
(* C18 as stated: every poll in state Init calls connect once, clones one  *)
(* waker, moves to Started and returns Pending; a poll in state Started    *)
(* returns Pending, keeps handle and waker and does not call connect.      *)
(***************************************************************************)
C18_RegistrationOnce ==
    /\ [][SigPollStep /\ cf.st = "Init"
            => /\ sig'.connectCalls = sig.connectCalls + 1
               /\ sig'.clones = sig.clones + 1
               /\ cf'.st = "Started"
               /\ sig'.last = "Pending"]_vars
    /\ [][SigPollStep /\ cf.st = "Started"
            => /\ cf' = cf
               /\ sig'.last = "Pending"
               /\ sig'.connectCalls = sig.connectCalls]_vars

(***************************************************************************)
(* C18 amended: a poll in state Init calls connect once; unless connect    *)
(* returned an invalid handle in a build with debug assertions, it clones  *)
(* one waker, moves to Started and returns Pending, and in that excepted   *)
(* case it panics, clones no waker and leaves the state Invalid.  A poll   *)
(* in state Started returns Pending, keeps handle and waker and does not   *)
(* call connect.  connect is called at most once and at most one waker is  *)
(* cloned over the life of the future.                                     *)
(***************************************************************************)
C18_RegistrationOnceUnlessAsserted ==
    /\ [](sig.connectCalls <= 1 /\ sig.clones <= 1)
    /\ [][SigPollStep /\ cf.st = "Init"
            => /\ sig'.connectCalls = sig.connectCalls + 1
               /\ \/ /\ cf'.st = "Started"
                     /\ cf'.waker
                     /\ sig'.clones = sig.clones + 1
                     /\ sig'.last = "Pending"
                  \/ /\ conn' = "failed"
                     /\ cf'.st = "Invalid"
                     /\ sig'.clones = sig.clones
                     /\ sig'.last = "Panic"]_vars
    /\ [][SigPollStep /\ cf.st = "Started"
            => /\ cf' = cf
               /\ sig'.last = "Pending"
               /\ sig'.connectCalls = sig.connectCalls
               /\ sig'.clones = sig.clones]_vars

C18_Witness ==
    /\ cf.st = "Started"
    /\ cf.waker
    /\ conn = "connected"
    /\ sig.connectCalls = 1
    /\ sig.clones = 1
    /\ sig.last = "Pending"

(***************************************************************************)
(* C20 as stated: after a poll has returned Pending or Ready the state of  *)
(* the future is not Invalid.                                              *)
(***************************************************************************)
C20_InvalidIsTransient ==
    sig.last \in {"Pending", "Ready"} => cf.st # "Invalid"

(***************************************************************************)
(* C20 amended: after a poll has returned Pending the state is Started or  *)
(* Finished, and a callback leaves it Finished; after a poll has returned  *)
(* Ready the state is left Invalid.                                        *)
(***************************************************************************)
C20_InvalidOnlyAfterReady ==
    /\ [](/\ (sig.last = "none" => cf.st = "Init")
          /\ (sig.last = "Pending" => cf.st \in {"Started", "Finished"})
          /\ (sig.last = "Ready" => cf.st = "Invalid"))
    /\ [][sig'.callbacks > sig.callbacks => cf'.st = "Finished"]_vars

C20_Witness ==
    /\ sig.last = "Ready"
    /\ cf.st = "Invalid"
    /\ sig.readyCount = 1

(***************************************************************************)
(* C12: execute_async polls once and returns.  execute_async starts        *)
(* exactly one poll, on the calling thread, and no other poll starts       *)
(* before it returns; it returns after a Pending and after a Ready first   *)
(* poll alike and posts no notification itself.  Every later poll is       *)
(* started by the loop handling a notification, and a notification is      *)
(* queued only by the postEvent of a wake.                                 *)
(***************************************************************************)
C12_SpawnPollsOnceThenLoopOnly ==
    /\ [][ExecuteAsync
            => polling = <<>> /\ polling' = <<LoopThread>> /\ queue' = queue]_vars
    /\ [][lpc = "spawn_poll" => Len(polling') <= Len(polling)]_vars
    /\ [][\A r \in PollResults :
            ExecuteAsyncReturn(r)
              => /\ lpc' = "idle"
                 /\ polling' = <<>>
                 /\ UserEvents(queue') = UserEvents(queue)]_vars
    /\ [](lpc = "spawn_poll" => \A r \in PollResults :
            thr[LoopThread].pc = "idle" => ENABLED ExecuteAsyncReturn(r))
    /\ [][lpc # "start" /\ Len(polling') > Len(polling)
            => CustomEvent /\ Head(queue) = "User"]_vars
    /\ [][UserEvents(queue') > UserEvents(queue)
            => \E t \in Threads : WakePost(t)]_vars
    /\ [][lpc' = "start" => lpc = "start"]_vars

C12_Witness ==
    /\ lpc = "event_poll"
    /\ polling = <<LoopThread>>
    /\ ~ready
    /\ queue = <<>>
    /\ postsSince = 0

(***************************************************************************)
(* C17: reference-count accounting.  Waker::ref equals the number of live  *)
(* waker handles (retained clones, handles inside a vtable call, the       *)
(* handle of the poll in progress) plus one for the shim's own reference   *)
(* while `completed` is false; it is never negative.  The own reference is *)
(* created by execute_async and is released only by customEvent, once,     *)
(* when the poll it made returned Ready.                                   *)
(***************************************************************************)
C17_RefCountAccounting ==
    /\ [](/\ ref >= 0
          /\ ref = LiveHandles + (IF shim # "none" /\ ~completed THEN 1 ELSE 0))
    /\ [][ExecuteAsync => ref' = 2 /\ LiveHandles' = 1 /\ ~completed']_vars
    /\ [][completed' # completed
            => /\ CustomEventReturn("Ready")
               /\ ~completed /\ completed'
               /\ ref' = ref - 2
               /\ LiveHandles' = LiveHandles - 1]_vars
    /\ [][CustomEventReturn("Ready") => completed']_vars

C17_Witness ==
    /\ completed
    /\ shim = "live"
    /\ ref = MaxHandles
    /\ LiveHandles = MaxHandles
    /\ \E t \in Workers : thr[t].pc = "ret" /\ thr[t].kind = "drop"

(***************************************************************************)
(* C13: panic containment.  Once a poll of the task has panicked, the      *)
(* process has not been aborted, `completed` is true, no poll of the task  *)
(* is in progress, no notification is queued or about to be posted, and    *)
(* Waker::ref equals the number of live waker handles, plus one when the   *)
(* shim's own reference is still held.                                     *)
(***************************************************************************)
C13_PanicContained ==
    pollPanic
      => /\ lpc # "aborted"
         /\ completed
         /\ polling = <<>>
         /\ UserEvents(queue) = 0
         /\ Waking = {}
         /\ ref \in {LiveHandles, LiveHandles + 1}

(***************************************************************************)
(* C19: callback step order.  Inside Slot::apply the state is Finished     *)
(* with the payload before disconnect is called, disconnect is called      *)
(* before the waker is woken, and the wake is the last step.  The state    *)
(* leaves Started only by the callback, to Finished, and becomes Finished  *)
(* only from Started and only by the callback; this happens at most once.  *)
(***************************************************************************)
C19_CallbackStepOrder ==
    /\ [][ApplyDisconnect
            => /\ cf.st = "Finished" /\ cf.result = sig.first
               /\ conn = "connected" /\ conn' = "disconnected"
               /\ sig.wakes = 0]_vars
    /\ [][ApplyWake
            => /\ cf.st = "Finished" /\ cf.result = sig.first
               /\ conn = "disconnected"
               /\ sig'.wakes = 1
               /\ cbpc' = 0]_vars
    /\ [][cf.st = "Started" /\ cf' # cf
            => /\ \E p \in Payloads : ApplyBegin(p) /\ cf'.result = p
               /\ cf'.st = "Finished"]_vars
    /\ [][cf.st # "Finished" /\ cf'.st = "Finished"
            => cf.st = "Started" /\ \E p \in Payloads : ApplyBegin(p)]_vars
    /\ [](sig.callbacks <= 1 /\ sig.wakes <= 1 /\ ~sig.cbPanic)

C19_Witness ==
    /\ cbpc = 0
    /\ sig.callbacks = 1
    /\ sig.wakes = 1
    /\ sig.disconnectCalls = 1
    /\ cf.st = "Finished"
    /\ conn = "disconnected"

(***************************************************************************)
(* C16: end-to-end run of a spawned signal wait.  The task is polled at    *)
(* most twice; its second poll starts only after the callback stored the   *)
(* payload and disconnected the registration, and returns Ready with the   *)
(* payload of the first emission delivered.  Once the callback has run and *)
(* the loop has dispatched every notification, the task has been polled    *)
(* exactly twice, the shim's count is zero and the boxed future has been   *)
(* deallocated exactly once.                                               *)
(***************************************************************************)
C16_SpawnedSignalWaitEndToEnd ==
    /\ sig.taskPolls <= 2
    /\ freeCount <= 1
    /\ sig.callbacks <= 1
    /\ ~sig.cbPanic
    /\ ref = E2EHandles + (IF shim # "none" /\ ~completed THEN 1 ELSE 0)
    /\ lpc = "event_poll"
         => /\ sig.taskPolls = 1
            /\ cf.st = "Finished" /\ cf.result = sig.first
            /\ conn = "disconnected"
    /\ sig.readyCount >= 1
         => /\ sig.readyCount = 1
            /\ sig.taskPolls = 2
            /\ sig.out = sig.first /\ sig.first \in Payloads
            /\ conn = "disconnected"
            /\ completed
    /\ (sig.callbacks = 1 /\ Quiescent)
         => /\ sig.readyCount = 1
            /\ sig.taskPolls = 2
            /\ ref = 0
            /\ future = "freed"
            /\ freeCount = 1
    /\ future = "freed" => cfLife = "dropped" /\ sig.readyCount = 1

C16_Witness ==
    /\ future = "freed"
    /\ freeCount = 1
    /\ ref = 0
    /\ sig.emits = 1
    /\ sig.first = "p1"
    /\ sig.out = "p1"
    /\ sig.taskPolls = 2
    /\ sig.disconnectCalls = 1

(***************************************************************************)
(* C21: deallocation implies completion.  Waker::ref is zero only when     *)
(* `completed` is true; deleteLater has been called, or the boxed future   *)
(* dropped, only when `completed` is true and some poll returned Ready.    *)
(* While every poll so far returned Pending the shim is alive and holds    *)
(* the boxed future, whatever clone, wake and drop calls were made.        *)
(***************************************************************************)
C21_DeallocationImpliesCompletion ==
    /\ (shim # "none" /\ ref = 0) => completed
    /\ (deleteLaterCalls >= 1 \/ DeleteEvents(queue) >= 1 \/ future = "freed")
         => completed /\ ready
    /\ (shim # "none" /\ ~ready)
         => shim = "live" /\ future = "boxed" /\ ref >= 1 /\ freeCount = 0

C21_Witness ==
    /\ shim = "live"
    /\ completed
    /\ ref = 0
    /\ deleteLaterCalls = 1
    /\ DeleteEvents(queue) = 1
    /\ future = "boxed"

(***************************************************************************)
(* C22: the callback runs only in state Started.  With a registry that     *)
(* invokes a callback only while its registration is connected, the        *)
(* registration is connected only while the future is alive and in state   *)
(* Started with a valid handle; every invocation of Slot::apply finds the  *)
(* state Started, so its unreachable!() branch is never reached, in Init,  *)
(* Finished or Invalid, nor on a dropped future.                           *)
(***************************************************************************)
C22_CallbackOnlyInStarted ==
    /\ [](RegDelivers(conn)
            => cfLife = "live" /\ cf.st = "Started" /\ cf.handle = "valid")
    /\ [][sig'.callbacks > sig.callbacks
            => /\ \E p \in Payloads : SigEmit(p)
               /\ cfLife = "live"
               /\ cf.st = "Started"
               /\ ~sig'.cbPanic]_vars
    /\ [][cf.st \in {"Init", "Finished", "Invalid"}
            => sig'.callbacks = sig.callbacks /\ ~sig'.cbPanic]_vars

C22_Witness ==
    /\ sig.callbacks = 1
    /\ sig.emitsAfter >= 1
    /\ sig.emits = sig.callbacks + sig.emitsAfter + 1
    /\ cf.st = "Invalid"
    /\ ~sig.cbPanic

(***************************************************************************)
(* C23: flag/queue agreement.  With wake calls issued one after another,   *)
(* whenever no thread is inside Waker::wake, `woken` is true exactly when   *)
(* one notification is queued for the shim and not yet handled; at most    *)
(* one notification is queued at any moment.                               *)
(***************************************************************************)
C23_FlagQueueAgreement ==
    /\ UserEvents(queue) <= 1
    /\ Waking = {} => (woken <=> UserEvents(queue) = 1)

C23_Witness ==
    /\ lpc = "event_poll"
    /\ woken
    /\ UserEvents(queue) = 1
    /\ wakesSince >= 2
    /\ \A t \in Threads : thr[t].pc = "idle"

====
